---- MODULE Spec2Model ----
(***************************************************************************)
(* llm-eval-studio: the evaluation pipeline (eval_runner/runner.py), the   *)
(* persistence layer (api/database.py) and the service layer               *)
(* (api/routes.py) as one state machine.                                   *)
(*                                                                         *)
(* Texts are sequences of tokens (characters or literal fragments); scores *)
(* are tenths (10 is 1.0, 7 is the 0.7 pass threshold).  Identities that   *)
(* the code draws with uuid4() are fresh values: a run's identity is its   *)
(* creation number, a loaded test case's identity is its position in the   *)
(* loaded list, a result row's identity is the pair <<run, position>>.     *)
(***************************************************************************)
EXTENDS Integers, Sequences, FiniteSets, TLC

\* ------------------------------------------------------------------ bounds
MaxRuns == 2       \* runs created through the service
MaxCases == 2      \* test cases submitted to the service, over all runs;
                   \* also the most elements of a file run directly
MaxThreads == 2    \* threads that call get_client
MaxGets == 2       \* calls of get_client one thread makes
MaxTextLen == 2    \* characters of a text handed to grade_exact_match

RunIds == 1..MaxRuns
Threads == 1..MaxThreads

\* --------------------------------------------------------------- constants
MODEL == "claude-sonnet-4-6"
PASS_THRESHOLD == 7

ScoringMethod == {"exact_match", "llm_judge", "fuzzy"}
RunStatus == {"pending", "running", "completed", "failed"}

\* ------------------------------------------------------------ input domains
\* The test-case specs a request may carry (api/schemas.py TestCaseInput:
\* scoring_method is any string, so "bogus" passes the service schema).
CaseSpecs ==
  { [input |-> "Q1", expected_output |-> <<"a">>, scoring_method |-> "exact_match"],
    [input |-> "Q2", expected_output |-> <<"b">>, scoring_method |-> "llm_judge"],
    [input |-> "Q3", expected_output |-> <<"c">>, scoring_method |-> "fuzzy"],
    [input |-> "Q4", expected_output |-> <<"d">>, scoring_method |-> "bogus"] }

SystemPrompts == {"", "Be terse."}

SeqsUpTo(S, n) == UNION { [1..m -> S] : m \in 0..n }

Requests ==
  [name : {"test run"},
   test_cases : SeqsUpTo(CaseSpecs, MaxCases),
   system_prompt : SystemPrompts]

\* Request bodies that reach POST /runs besides those: one that leaves the
\* optional fields to their defaults, and two the schema turns down.
DefaultedBodies ==
  { [name |-> "test run",
     test_cases |-> <<[input |-> "Q2", expected_output |-> <<"b">>]>>] }

MalformedBodies ==
  { [name |-> "test run", system_prompt |-> ""],
    [name |-> "test run", test_cases |-> <<[input |-> "Q1"]>>,
     system_prompt |-> ""] }

Bodies == Requests \cup DefaultedBodies \cup MalformedBodies

\* What the remote model may answer to a test-case prompt: (text, latency).
ModelReplies ==
  { [text |-> <<" ", "A">>, latency_ms |-> 10],
    [text |-> <<"b">>, latency_ms |-> 20] }

\* What the remote model may answer to the judge prompt, as the two regex
\* searches of grade_with_llm see it: whether each tag is there, and the body
\* of each tag as the text between its marks.
JudgeReplies ==
  { [has_reasoning |-> TRUE, reasoning |-> <<" ", "ok">>,
     has_score |-> TRUE, score |-> <<" ", "0.7">>, latency_ms |-> 30],
    [has_reasoning |-> FALSE, reasoning |-> <<>>,
     has_score |-> FALSE, score |-> <<>>, latency_ms |-> 30] }

\* The bodies a score tag may have: numbers inside and outside the range,
\* the special values float() accepts, and text it does not accept.
ScoreBodies ==
  { <<"1.5">>, <<" ", "0.7", " ">>, <<"0.5">>, <<"0.0">>, <<"1.0">>, <<"-0.5">>,
    <<"nan">>, <<"inf">>, <<"-inf">>, <<"high">>, <<>>, <<" ">>,
    <<"0.7", "0.5">> }

\* Every judge reply the graders are tried on.
AllJudgeReplies ==
  JudgeReplies \cup
  [has_reasoning : BOOLEAN, reasoning : {<<" ", "ok">>, <<>>},
   has_score : BOOLEAN, score : ScoreBodies, latency_ms : {30}]

\* -------------------------------------------------------------- text helpers
Lower(c) == IF c = "A" THEN "a" ELSE IF c = "B" THEN "b" ELSE c

lower(s) == [i \in 1..Len(s) |-> Lower(s[i])]

RECURSIVE lstrip(_)
lstrip(s) == IF s # <<>> /\ Head(s) = " " THEN lstrip(Tail(s)) ELSE s

RECURSIVE rstrip(_)
rstrip(s) ==
  IF s # <<>> /\ s[Len(s)] = " " THEN rstrip(SubSeq(s, 1, Len(s) - 1)) ELSE s

strip(s) == rstrip(lstrip(s))

\* ------------------------------------------------------------------ floats
\* A float is its value in tenths.  The two infinities and NaN have numbers
\* of their own, and the comparisons treat NaN as IEEE 754 does: every
\* ordering test with NaN is false.
Inf == 1000000
NaN == 0 - 2000000

Lt(a, b) == a # NaN /\ b # NaN /\ a < b
Le(a, b) == a # NaN /\ b # NaN /\ a <= b

\* The literals float() knows here; any other text is a ValueError.
FloatLiterals ==
  [t \in {"1.5", "1.0", "0.7", "0.5", "0.0", "-0.5", "nan", "inf", "-inf"} |->
     CASE t = "1.5" -> 15 [] t = "1.0" -> 10 [] t = "0.7" -> 7
       [] t = "0.5" -> 5 [] t = "0.0" -> 0 [] t = "-0.5" -> 0 - 5
       [] t = "nan" -> NaN [] t = "inf" -> Inf [] t = "-inf" -> 0 - Inf]

\* float(text): [ok |-> FALSE] is the ValueError.
float(text) ==
  IF Len(text) = 1 /\ text[1] \in DOMAIN FloatLiterals
  THEN [ok |-> TRUE, value |-> FloatLiterals[text[1]]]
  ELSE [ok |-> FALSE]

\* Python's max(a, b) and min(a, b): the first argument stays unless the
\* second is strictly greater (smaller).
Max(a, b) == IF Lt(a, b) THEN b ELSE a
Min(a, b) == IF Lt(b, a) THEN b ELSE a

RECURSIVE SumOver(_, _)
SumOver(s, field) ==
  IF s = <<>> THEN 0 ELSE s[1][field] + SumOver(Tail(s), field)

\* ------------------------------------------------------------------- graders
\* The texts grade_exact_match is tried on.
Letters == {"a", "A", "b", " "}
Texts == SeqsUpTo(Letters, MaxTextLen)

\* Fault variant: the actual text is compared untrimmed.
grade_exact_match_untrimmed(actual, expected) ==
  LET match == lower(actual) = lower(strip(expected))
  IN  [score |-> IF match THEN 10 ELSE 0,
       reasoning |-> IF match THEN <<"Exact match.">>
                     ELSE <<"Expected '">> \o expected \o <<"', got '">>
                          \o actual \o <<"'.">>]

grade_exact_match(actual, expected) ==
  LET match == lower(strip(actual)) = lower(strip(expected))
  IN  [score |-> IF match THEN 10 ELSE 0,
       reasoning |-> IF match THEN <<"Exact match.">>
                     ELSE <<"Expected '">> \o expected \o <<"', got '">>
                          \o actual \o <<"'.">>]

\* Fault variant: the parsed score is passed on as it is.
clamp_none(score) == score

\* score = max(0.0, min(1.0, score))
clamp(score) == Max(0, Min(10, score))

\* The parsing half of grade_with_llm, applied to the judge's reply.  The
\* try block: float() of the trimmed body, then the clamp; a ValueError of
\* float() is caught and gives 0.0, and no other statement can raise.
grade_with_llm(reply) ==
  LET parsed == float(strip(reply.score))
  IN  [raised |-> FALSE,
       score |-> IF ~reply.has_score THEN 0
                 ELSE IF parsed.ok THEN clamp(parsed.value)
                 ELSE 0,
       reasoning |-> IF reply.has_reasoning THEN strip(reply.reasoning)
                     ELSE <<"Could not parse reasoning.">>]

\* ------------------------------------------------------- model invocation
\* The request call_claude hands to client.messages.create: the system
\* parameter is passed only for a non-empty system prompt.
\* Fault variant: the system parameter is always sent.
call_claude_always_system(prompt, system_prompt) ==
  [prompt |-> prompt, has_system |-> TRUE, system |-> system_prompt]

call_claude(prompt, system_prompt) ==
  IF system_prompt # ""
  THEN [prompt |-> prompt, has_system |-> TRUE, system |-> system_prompt]
  ELSE [prompt |-> prompt, has_system |-> FALSE, system |-> ""]

judge_prompt(actual, expected) ==
  <<"<expected>">> \o expected \o <<"</expected>", "<actual>">> \o actual
    \o <<"</actual>">>

\* ------------------------------------------------------------ the pipeline
\* A test-case file as run_eval finds it: the parsed JSON is an array or it
\* is not, and an array holds objects.  NoFile: nothing was handed over yet.
NoFile == [is_array |-> TRUE, items |-> <<>>]

\* The fields a TestCase may be built from (extra = forbid; project_id is
\* passed by load_test_cases itself, so a file must not bring its own).
TestCaseFields ==
  {"id", "input", "expected_output", "scoring_method", "tags", "created_at"}

\* Fault variant: the scoring method is taken as free text.
TestCaseOk_any_method(tc) ==
  /\ DOMAIN tc \subseteq TestCaseFields
  /\ {"input", "expected_output"} \subseteq DOMAIN tc

TestCaseOk(tc) ==
  /\ DOMAIN tc \subseteq TestCaseFields
  /\ {"input", "expected_output"} \subseteq DOMAIN tc
  /\ "scoring_method" \in DOMAIN tc => tc.scoring_method \in ScoringMethod

\* Fault variant: only the first element is validated before the loop.
LoadOk_first_only(content) ==
  /\ content.is_array
  /\ content.items # <<>> => TestCaseOk(content.items[1])

\* load_test_cases returns only when the content is an array and every
\* element of it builds a TestCase; the list is built whole before the loop
\* of run_eval sees any of it.
LoadOk(content) ==
  /\ content.is_array
  /\ \A i \in 1..Len(content.items) : TestCaseOk(content.items[i])

load_test_cases(raw) ==
  [i \in 1..Len(raw) |->
     [id |-> i, input |-> raw[i].input,
      expected_output |-> raw[i].expected_output,
      scoring_method |-> IF "scoring_method" \in DOMAIN raw[i]
                         THEN raw[i].scoring_method ELSE "llm_judge"]]

\* The files the pipeline is run on directly (python -m eval_runner.runner).
FileItems ==
  { [input |-> "Q1", expected_output |-> <<"a">>, scoring_method |-> "exact_match"],
    [input |-> "Q2", expected_output |-> <<"b">>],
    [input |-> "Q3", expected_output |-> <<"c">>, scoring_method |-> "fuzzy"],
    [input |-> "Q1"],
    [input |-> "Q1", expected_output |-> <<"a">>, notes |-> "x"],
    [input |-> "Q4", expected_output |-> <<"d">>, scoring_method |-> "bogus"] }

Files ==
  { [is_array |-> FALSE, items |-> <<>>] }
  \cup { [is_array |-> TRUE, items |-> items] : items \in SeqsUpTo(FileItems, MaxCases) }

NewResult(test_case, run, actual_output, latency_ms, grade) ==
  [run_id |-> run.id, test_case_id |-> test_case.id,
   actual_output |-> actual_output, score |-> grade.score,
   reasoning |-> grade.reasoning, latency_ms |-> latency_ms,
   created_at |-> test_case.id]

Raised(kind, msg, calls) ==
  [raised |-> TRUE, kind |-> kind, error |-> msg, calls |-> calls]
Returned(result, calls) == [raised |-> FALSE, result |-> result, calls |-> calls]

\* Fault variant: only the lower end of the interval is enforced.
ResultScoreOk_lower_only(score) == Le(0, score)

\* score: float = Field(ge=0.0, le=1.0)
ResultScoreOk(score) == Le(0, score) /\ Le(score, 10)

\* Result(...): the object, or the validation error of the data model.  A
\* score outside the interval is turned down; nothing adjusts it.
Result(test_case, run, actual_output, latency_ms, grade, calls) ==
  IF ResultScoreOk(grade.score)
  THEN Returned(NewResult(test_case, run, actual_output, latency_ms, grade), calls)
  ELSE Raised("ValidationError", <<"ValidationError">>, calls)

\* The scores the constructor is tried on, in tenths.
ResultScores == {0 - 5, 0 - 1, 0, 5, 7, 10, 11, 15, NaN, Inf, 0 - Inf}

\* The remote model did not answer: client.messages.create raised, or
\* call_claude raised on what came back.
CallFailed == [failed |-> TRUE]

\* Fault variant: the dispatch fails like a grader that got wrong input.
NotImplementedError_value_error(test_case, calls) ==
  Raised("ValueError", <<"Scoring method not supported.">>, calls)

\* raise NotImplementedError(f"Scoring method '{...}' is not yet implemented.")
NotImplementedError(test_case, calls) ==
  Raised("NotImplementedError",
         <<"Scoring method '", test_case.scoring_method,
           "' is not yet implemented.">>, calls)

\* Fault variant: the latency of the judge invocation is added to the
\* Result's latency.
run_test_case_on_total_latency(test_case, run, first_reply, judge_reply) ==
  LET first == call_claude(<<test_case.input>>, run.system_prompt)
      judge ==
        call_claude(judge_prompt(first_reply.text, test_case.expected_output), "")
  IN  IF first_reply = CallFailed
      THEN Raised("APIError", <<"API error">>, <<first>>)
      ELSE IF test_case.scoring_method = "exact_match"
      THEN Result(test_case, run, first_reply.text, first_reply.latency_ms,
                  grade_exact_match(first_reply.text, test_case.expected_output),
                  <<first>>)
      ELSE IF test_case.scoring_method = "llm_judge"
      THEN IF judge_reply = CallFailed
           THEN Raised("APIError", <<"API error">>, <<first, judge>>)
           ELSE Result(test_case, run, first_reply.text,
                       first_reply.latency_ms + judge_reply.latency_ms,
                       grade_with_llm(judge_reply), <<first, judge>>)
      ELSE NotImplementedError(test_case, <<first>>)

\* One call of run_test_case, given what the remote model does on the
\* test-case invocation (first) and, if it comes to that, on the judge
\* invocation (second): a reply, or CallFailed.
run_test_case_on(test_case, run, first_reply, judge_reply) ==
  LET first == call_claude(<<test_case.input>>, run.system_prompt)
      judge ==
        call_claude(judge_prompt(first_reply.text, test_case.expected_output), "")
  IN  IF first_reply = CallFailed
      THEN Raised("APIError", <<"API error">>, <<first>>)
      ELSE IF test_case.scoring_method = "exact_match"
      THEN Result(test_case, run, first_reply.text, first_reply.latency_ms,
                  grade_exact_match(first_reply.text, test_case.expected_output),
                  <<first>>)
      ELSE IF test_case.scoring_method = "llm_judge"
      THEN IF judge_reply = CallFailed
           THEN Raised("APIError", <<"API error">>, <<first, judge>>)
           ELSE Result(test_case, run, first_reply.text, first_reply.latency_ms,
                       grade_with_llm(judge_reply), <<first, judge>>)
      ELSE NotImplementedError(test_case, <<first>>)

\* Every way one call of run_test_case can end, over what the remote model
\* does: each invocation either raises or answers from the reply sets.
run_test_case(test_case, run) ==
  { run_test_case_on(test_case, run, first_reply, judge_reply) :
      first_reply \in ModelReplies \cup {CallFailed},
      judge_reply \in JudgeReplies \cup {CallFailed} }

\* Fault variant: a single error is tolerated.
FinalStatus_lenient(errors) == IF Len(errors) > 1 THEN "failed" ELSE "completed"

FinalStatus(errors) == IF errors # <<>> THEN "failed" ELSE "completed"

\* Fault variant: nothing is written when there are no results.
save_results_skip_empty(results, run) ==
  IF results = <<>> THEN [written |-> FALSE]
  ELSE [written |-> TRUE, run |-> run, results |-> results]

save_results(results, run) ==
  [written |-> TRUE, run |-> run, results |-> results]

NoSnapshot == [written |-> FALSE]

\* ------------------------------------------------------------- persistence
\* A connection sees the committed database plus its own open transaction.
\* db = [committed |-> [runs, results], txn |-> <<writes>>].
EmptyDb == [runs |-> <<>>, results |-> <<>>]

\* Fault variant: the UPDATE has no WHERE clause.
Apply_no_where(data, w) ==
  IF w.op = "insert_run" THEN [data EXCEPT !.runs = Append(@, w.row)]
  ELSE IF w.op = "insert_result" THEN [data EXCEPT !.results = Append(@, w.row)]
  ELSE [data EXCEPT !.runs =
          [i \in 1..Len(@) |-> [@[i] EXCEPT !.status = w.status]]]

Apply(data, w) ==
  IF w.op = "insert_run" THEN [data EXCEPT !.runs = Append(@, w.row)]
  ELSE IF w.op = "insert_result" THEN [data EXCEPT !.results = Append(@, w.row)]
  ELSE [data EXCEPT !.runs =
          [i \in 1..Len(@) |->
             IF @[i].id = w.id THEN [@[i] EXCEPT !.status = w.status] ELSE @[i]]]

RECURSIVE ApplyAll(_, _)
ApplyAll(data, ws) ==
  IF ws = <<>> THEN data ELSE ApplyAll(Apply(data, Head(ws)), Tail(ws))

Execute(db, w) == [db EXCEPT !.txn = Append(@, w)]
Commit(db) == [committed |-> ApplyAll(db.committed, db.txn), txn |-> <<>>]
\* What a query on this connection reads.
View(db) == ApplyAll(db.committed, db.txn)

\* Fault variant: the status column is left to its schema default.
insert_run_pending(db, run_id, name, llm_model, system_prompt, created_at) ==
  Commit(Execute(db,
    [op |-> "insert_run",
     row |-> [id |-> run_id, name |-> name, llm_model |-> llm_model,
              system_prompt |-> system_prompt, status |-> "pending",
              created_at |-> created_at]]))

\* Fault variant: the insert is executed but not committed.
insert_run_uncommitted(db, run_id, name, llm_model, system_prompt, created_at) ==
  Execute(db,
    [op |-> "insert_run",
     row |-> [id |-> run_id, name |-> name, llm_model |-> llm_model,
              system_prompt |-> system_prompt, status |-> "running",
              created_at |-> created_at]])

insert_run(db, run_id, name, llm_model, system_prompt, created_at) ==
  Commit(Execute(db,
    [op |-> "insert_run",
     row |-> [id |-> run_id, name |-> name, llm_model |-> llm_model,
              system_prompt |-> system_prompt, status |-> "running",
              created_at |-> created_at]]))

update_run_status(db, run_id, status) ==
  Commit(Execute(db, [op |-> "update_status", id |-> run_id, status |-> status]))

insert_result(db, id, run_id, test_case_input, test_case_expected, result) ==
  Execute(db,
    [op |-> "insert_result",
     row |-> [id |-> id, run_id |-> run_id,
              test_case_input |-> test_case_input,
              test_case_expected |-> test_case_expected,
              actual_output |-> result.actual_output,
              score |-> result.score, reasoning |-> result.reasoning,
              latency_ms |-> result.latency_ms,
              created_at |-> result.created_at]])

\* Fault variant: the WHERE clause is missing.
fetch_run_by_id_any(db, run_id) == View(db).runs

fetch_run_by_id(db, run_id) ==
  LET hit(row) == row.id = run_id
  IN  SelectSeq(View(db).runs, hit)          \* <<>> is "no row"

\* ORDER BY created_at: a stable insertion sort on the created_at column.
RECURSIVE InsertByCreatedAt(_, _)
InsertByCreatedAt(row, sorted) ==
  IF sorted = <<>> THEN <<row>>
  ELSE IF row.created_at < Head(sorted).created_at THEN <<row>> \o sorted
  ELSE <<Head(sorted)>> \o InsertByCreatedAt(row, Tail(sorted))

RECURSIVE OrderByCreatedAt(_)
OrderByCreatedAt(rows) ==
  IF rows = <<>> THEN <<>>
  ELSE InsertByCreatedAt(rows[Len(rows)],
                         OrderByCreatedAt(SubSeq(rows, 1, Len(rows) - 1)))

Reverse(s) == [i \in 1..Len(s) |-> s[Len(s) + 1 - i]]

fetch_results_for_run(db, run_id) ==
  LET hit(row) == row.run_id = run_id
  IN  OrderByCreatedAt(SelectSeq(View(db).results, hit))

Average(rows, field) ==
  IF Len(rows) = 0 THEN [present |-> FALSE]
  ELSE [present |-> TRUE, num |-> SumOver(rows, field), den |-> Len(rows)]

\* Fault variant: an inner join, which drops the runs without results.
fetch_all_runs_inner_join(db) ==
  LET some(r) == fetch_results_for_run(db, r.id) # <<>>
      rs == Reverse(OrderByCreatedAt(SelectSeq(View(db).runs, some)))
  IN  [i \in 1..Len(rs) |->
         LET r == rs[i]
             res == fetch_results_for_run(db, r.id)
         IN  [id |-> r.id, name |-> r.name, status |-> r.status,
              created_at |-> r.created_at, result_count |-> Len(res),
              avg_score |-> Average(res, "score")]]

\* LEFT JOIN ... GROUP BY r.id ORDER BY r.created_at DESC.
fetch_all_runs(db) ==
  LET rs == Reverse(OrderByCreatedAt(View(db).runs))
  IN  [i \in 1..Len(rs) |->
         LET r == rs[i]
             res == fetch_results_for_run(db, r.id)
         IN  [id |-> r.id, name |-> r.name, status |-> r.status,
              created_at |-> r.created_at, result_count |-> Len(res),
              avg_score |-> Average(res, "score")]]

\* ------------------------------------------------------------ service layer
\* Validation of the body against RunRequest / TestCaseInput: the required
\* fields are there.  The schema puts no condition on the length of
\* test_cases nor on the value of scoring_method.
TestCaseInputOk(tc) == {"input", "expected_output"} \subseteq DOMAIN tc

RunRequestOk(body) ==
  /\ {"name", "test_cases"} \subseteq DOMAIN body
  /\ \A i \in 1..Len(body.test_cases) : TestCaseInputOk(body.test_cases[i])

\* The validated request, with the defaults of the schema filled in.
TestCaseInput(tc) ==
  [input |-> tc.input, expected_output |-> tc.expected_output,
   scoring_method |-> IF "scoring_method" \in DOMAIN tc THEN tc.scoring_method
                      ELSE "llm_judge"]

RunRequest(body) ==
  [name |-> body.name,
   test_cases |-> [i \in 1..Len(body.test_cases) |->
                     TestCaseInput(body.test_cases[i])],
   system_prompt |-> IF "system_prompt" \in DOMAIN body THEN body.system_prompt
                     ELSE ""]

\* cases = [tc.model_dump() ...]; json.dump(cases, f)
DumpCases(cases) ==
  [is_array |-> TRUE,
   items |-> [i \in 1..Len(cases) |->
                [input |-> cases[i].input,
                 expected_output |-> cases[i].expected_output,
                 scoring_method |-> cases[i].scoring_method]]]

NoResponse == [kind |-> "none"]

ValidationErrorResponse == [kind |-> "invalid", code |-> 422]

RunCreatedResponse(run_id, name) ==
  [kind |-> "created", code |-> 202, id |-> run_id, name |-> name,
   status |-> "running"]

list_runs(db) == [kind |-> "list", code |-> 200, runs |-> fetch_all_runs(db)]

ResultResponse(r) ==
  [id |-> r.id, test_case_input |-> r.test_case_input,
   test_case_expected |-> r.test_case_expected,
   actual_output |-> r.actual_output, score |-> r.score,
   reasoning |-> r.reasoning, latency_ms |-> r.latency_ms]

\* Fault variant: a score on the threshold does not pass.
Passed_strict(result_rows) ==
  LET pass(r) == r.score > PASS_THRESHOLD
  IN  Len(SelectSeq(result_rows, pass))

\* passed = sum(1 for r in result_rows if r["score"] >= PASS_THRESHOLD)
Passed(result_rows) ==
  LET pass(r) == r.score >= PASS_THRESHOLD
  IN  Len(SelectSeq(result_rows, pass))

NotFound == [kind |-> "error", code |-> 404, detail |-> "Run not found"]

\* The response get_run builds from the run row and the result rows it read.
RunDetailResponse(run, result_rows) ==
  [kind |-> "detail", code |-> 200, id |-> run.id,
   name |-> run.name, llm_model |-> run.llm_model,
   status |-> run.status, created_at |-> run.created_at,
   results |-> [i \in 1..Len(result_rows) |-> ResultResponse(result_rows[i])],
   total |-> Len(result_rows),
   passed |-> Passed(result_rows),
   avg_score |-> Average(result_rows, "score"),
   avg_latency_ms |-> Average(result_rows, "latency_ms")]

\* get_run with both queries answered from the same state of the store.
get_run(db, run_id) ==
  LET found == fetch_run_by_id(db, run_id)
  IN  IF found = <<>> THEN NotFound
      ELSE RunDetailResponse(found[1], fetch_results_for_run(db, run_id))

\* The bookkeeping of run_eval's loop body (try / except around one case).
\* Fault variant: the new result goes to the front of the list.
AppendResult_front(results, outcome) ==
  IF outcome.raised THEN results ELSE <<outcome.result>> \o results

AppendResult(results, outcome) ==
  IF outcome.raised THEN results ELSE Append(results, outcome.result)

AppendError(errors, outcome) ==
  IF outcome.raised THEN Append(errors, outcome.error) ELSE errors

\* Fault variant: the exception is not caught inside the loop, so a failing
\* case ends the batch.
NextCase_abort(i, outcome) == IF outcome.raised THEN i + MaxCases + 1 ELSE i + 1

\* The case the for loop takes up after case i, whatever case i did.
NextCase(i, outcome) == i + 1

\* What _run_eval_background keeps of the pipeline call: try / except.
PipelineReturned(results) == [results |-> results, status |-> "completed"]
\* Fault variant: the except branch forgets to mark the run failed.
PipelineRaised_completed == [results |-> <<>>, status |-> "completed"]

PipelineRaised == [results |-> <<>>, status |-> "failed"]

\* ------------------------------------------------------------------- state
VARIABLES
  store,       \* the committed database: [runs, results]
  txn,         \* txn[r]: open transaction of run r's background connection
  created,     \* number of runs created so far
  response,    \* the HTTP response on its way to the client, or NoResponse
  pc,          \* pc[r]: where run r's background task is
  request,     \* request[r]: the RunRequest run r was created with
  test_cases,  \* run_eval: the loaded test cases
  idx,         \* run_eval: the loop's position (1-based)
  results,     \* run_eval: results
  errors,      \* run_eval: errors
  run,         \* run_eval: the pipeline's own Run object
  snapshot,    \* run_eval: the snapshot file save_results wrote
  calls,       \* the model invocations made for run r, in order
  processed,   \* the cases the loop has taken up, in order: [id, raised]
  bg,          \* _run_eval_background: [results, status]
  k,           \* _run_eval_background: position of the insert loop
  file,        \* run_eval: the content of test_cases_path
  client,      \* runner._client, the module-level handle
  constructed, \* how many remote clients were constructed so far
  thread,      \* get_client callers: position, what they read, what they got
  unit,        \* a single call of a grader or of the Result constructor
  reader       \* get_run between its two queries: the run row it has read

vars == <<store, txn, created, response, pc, request, test_cases, idx,
          results, errors, run, snapshot, calls, processed, bg, k, file,
          client, constructed, thread, unit, reader>>

evalVars ==
  <<test_cases, idx, results, errors, run, snapshot, calls, processed, file>>

serviceVars == <<store, txn, created, response, request, k>>

auxVars == <<client, constructed, thread, unit, reader>>

\* _client = None, and a thread outside get_client: the handle it has
\* constructed (0: none) and the handles its calls have returned so far.
NoClient == [built |-> FALSE, handle |-> 0]
NotCalling == [pc |-> "idle", made |-> 0, got |-> <<>>]
NoUnit == [fn |-> "none"]
NoRead == [pc |-> "idle", run_id |-> 0, found |-> <<>>]

NoRequest == [name |-> "", test_cases |-> <<>>, system_prompt |-> ""]
NoRun == [id |-> <<"run", 0>>, name |-> "", llm_model |-> MODEL,
          system_prompt |-> "", status |-> "pending"]

Init ==
  /\ store = EmptyDb
  /\ txn = [r \in RunIds |-> <<>>]
  /\ created = 0
  /\ response = NoResponse
  /\ pc = [r \in RunIds |-> "none"]
  /\ request = [r \in RunIds |-> NoRequest]
  /\ test_cases = [r \in RunIds |-> <<>>]
  /\ idx = [r \in RunIds |-> 1]
  /\ results = [r \in RunIds |-> <<>>]
  /\ errors = [r \in RunIds |-> <<>>]
  /\ run = [r \in RunIds |-> NoRun]
  /\ snapshot = [r \in RunIds |-> NoSnapshot]
  /\ calls = [r \in RunIds |-> <<>>]
  /\ processed = [r \in RunIds |-> <<>>]
  /\ bg = [r \in RunIds |-> PipelineRaised]
  /\ k = [r \in RunIds |-> 1]
  /\ file = [r \in RunIds |-> NoFile]
  /\ client = NoClient
  /\ constructed = 0
  /\ thread = [t \in Threads |-> NotCalling]
  /\ unit = NoUnit
  /\ reader = NoRead

\* SQLite lets one connection write at a time: a connection with an open
\* transaction holds the write lock until it commits or closes, and a second
\* writer waits for it.  Of the ways the store can fail, the model has the
\* one the design names: an insert of a result that raises.
LockFree(r) == \A q \in RunIds \ {r} : txn[q] = <<>>

Idle == response = NoResponse

RECURSIVE Submitted(_)
Submitted(n) == IF n = 0 THEN 0 ELSE Len(request[n].test_cases) + Submitted(n - 1)

\* ----------------------------------------------------------------- actions
\* POST /runs: insert_run, add_task, return the 202 response.  The request's
\* connection is closed when the handler is done.
CreateRun(body) ==
  /\ Idle /\ created < MaxRuns /\ LockFree(0)
  /\ RunRequestOk(body)
  /\ Submitted(created) + Len(body.test_cases) <= MaxCases
  /\ LET req == RunRequest(body)
         run_id == created + 1
         db == insert_run([committed |-> store, txn |-> <<>>], run_id,
                          req.name, MODEL, req.system_prompt, created + 1)
     IN  /\ store' = db.committed
         /\ pc' = [pc EXCEPT ![run_id] = "scheduled"]
         /\ request' = [request EXCEPT ![run_id] = req]
         /\ response' = RunCreatedResponse(run_id, req.name)
  /\ created' = created + 1
  /\ UNCHANGED <<txn, bg, k>> /\ UNCHANGED evalVars
  /\ UNCHANGED auxVars

\* POST /runs with a body the schema turns down: 422, and the handler is
\* not entered.
RejectRun(body) ==
  /\ Idle /\ ~RunRequestOk(body)
  /\ response' = ValidationErrorResponse
  /\ UNCHANGED <<store, txn, created, pc, request, bg, k>> /\ UNCHANGED evalVars
  /\ UNCHANGED auxVars

\* The client takes the response off the wire.
Deliver ==
  /\ ~Idle
  /\ response' = NoResponse
  /\ UNCHANGED <<store, txn, created, pc, request, bg, k>> /\ UNCHANGED evalVars
  /\ UNCHANGED auxVars

\* GET /runs/{run_id} on a connection of its own.
GetRun(run_id) ==
  /\ Idle
  /\ response' = get_run([committed |-> store, txn |-> <<>>], run_id)
  /\ UNCHANGED <<store, txn, created, pc, request, bg, k>> /\ UNCHANGED evalVars
  /\ UNCHANGED auxVars

\* GET /runs on a connection of its own.
ListRuns ==
  /\ Idle
  /\ response' = list_runs([committed |-> store, txn |-> <<>>])
  /\ UNCHANGED <<store, txn, created, pc, request, bg, k>> /\ UNCHANGED evalVars
  /\ UNCHANGED auxVars

\* The background task starts after the response went out: it dumps the
\* cases to a file and calls run_eval, which loads them and builds its Run.
\* A load failure leaves run_eval at once and lands in the except branch.
EnterRunEval(r, content, run_name, system_prompt) ==
  /\ file' = [file EXCEPT ![r] = content]
  /\ IF LoadOk(content)
     THEN /\ test_cases' = [test_cases EXCEPT ![r] = load_test_cases(content.items)]
          /\ run' = [run EXCEPT ![r] =
                       [id |-> <<"run", r>>, name |-> run_name,
                        llm_model |-> MODEL,
                        system_prompt |-> system_prompt,
                        status |-> "running"]]
          /\ pc' = [pc EXCEPT ![r] = "eval"]
          /\ UNCHANGED bg
     ELSE /\ bg' = [bg EXCEPT ![r] = PipelineRaised]
          /\ pc' = [pc EXCEPT ![r] = "persist"]
          /\ UNCHANGED <<test_cases, run>>
  /\ UNCHANGED <<idx, results, errors, snapshot, calls, processed>>

StartBackground(r) ==
  /\ Idle /\ pc[r] = "scheduled"
  /\ EnterRunEval(r, DumpCases(request[r].test_cases), request[r].name,
                  request[r].system_prompt)
  /\ UNCHANGED serviceVars /\ UNCHANGED auxVars

\* The pipeline run on its own, outside the service: run_eval on a file of
\* any content.  One process makes one such call.
RunEvalCli(content) ==
  /\ pc[1] = "none"
  /\ EnterRunEval(1, content, "sample-run-v1", "")
  /\ UNCHANGED serviceVars /\ UNCHANGED auxVars

\* One pass of run_eval's loop: run_test_case, then append or record.
RunTestCase(r) ==
  /\ Idle /\ pc[r] = "eval" /\ idx[r] <= Len(test_cases[r])
  /\ LET tc == test_cases[r][idx[r]]
     IN  \E outcome \in run_test_case(tc, run[r]) :
           /\ results' = [results EXCEPT ![r] = AppendResult(@, outcome)]
           /\ errors' = [errors EXCEPT ![r] = AppendError(@, outcome)]
           /\ idx' = [idx EXCEPT ![r] = NextCase(@, outcome)]
           /\ calls' = [calls EXCEPT ![r] = @ \o outcome.calls]
           /\ processed' = [processed EXCEPT ![r] =
                             Append(@, [id |-> tc.id, raised |-> outcome.raised,
                                        kind |-> IF outcome.raised
                                                 THEN outcome.kind ELSE "none"])]
  /\ UNCHANGED <<pc, test_cases, run, snapshot, bg, file>>
  /\ UNCHANGED serviceVars /\ UNCHANGED auxVars

\* After the loop: final status, summary, snapshot, return to the task.
FinishEval(r) ==
  /\ Idle /\ pc[r] = "eval" /\ idx[r] > Len(test_cases[r])
  /\ LET final == [run[r] EXCEPT !.status = FinalStatus(errors[r])]
     IN  /\ run' = [run EXCEPT ![r] = final]
         /\ snapshot' = [snapshot EXCEPT ![r] = save_results(results[r], final)]
  /\ bg' = [bg EXCEPT ![r] = PipelineReturned(results[r])]
  /\ pc' = [pc EXCEPT ![r] = "persist"]
  /\ UNCHANGED <<test_cases, idx, results, errors, calls, processed, file>>
  /\ UNCHANGED serviceVars /\ UNCHANGED auxVars

\* After the loop, but the snapshot cannot be written (mkdir / open raise):
\* run_eval raises with the cases already graded.
FinishEvalRaises(r) ==
  /\ Idle /\ pc[r] = "eval" /\ idx[r] > Len(test_cases[r])
  /\ run' = [run EXCEPT ![r].status = FinalStatus(errors[r])]
  /\ bg' = [bg EXCEPT ![r] = PipelineRaised]
  /\ pc' = [pc EXCEPT ![r] = "persist"]
  /\ UNCHANGED <<test_cases, idx, results, errors, snapshot, calls, processed,
                 file>>
  /\ UNCHANGED serviceVars /\ UNCHANGED auxVars

\* One pass of the insert loop of _run_eval_background.
InsertResult(r) ==
  /\ Idle /\ pc[r] = "persist" /\ k[r] <= Len(bg[r].results) /\ LockFree(r)
  /\ LET i == k[r]
         tc == request[r].test_cases[i]
         db == insert_result([committed |-> store, txn |-> txn[r]], <<r, i>>, r,
                             tc.input, tc.expected_output, bg[r].results[i])
     IN  txn' = [txn EXCEPT ![r] = db.txn]
  /\ k' = [k EXCEPT ![r] = @ + 1]
  /\ UNCHANGED <<store, created, response, pc, request, bg>> /\ UNCHANGED evalVars
  /\ UNCHANGED auxVars

\* The store refuses an insert (locked, full, ...): the exception leaves the
\* task, the connection closes and its open transaction is rolled back.
InsertResultRaises(r) ==
  /\ Idle /\ pc[r] = "persist" /\ k[r] <= Len(bg[r].results)
  /\ txn' = [txn EXCEPT ![r] = <<>>]
  /\ pc' = [pc EXCEPT ![r] = "crashed"]
  /\ UNCHANGED <<store, created, response, request, bg, k>> /\ UNCHANGED evalVars
  /\ UNCHANGED auxVars

\* The last statement of the task: update_run_status, which commits.
UpdateRunStatus(r) ==
  /\ Idle /\ pc[r] = "persist" /\ k[r] > Len(bg[r].results) /\ LockFree(r)
  /\ LET db == update_run_status([committed |-> store, txn |-> txn[r]], r,
                                 bg[r].status)
     IN  /\ store' = db.committed
         /\ txn' = [txn EXCEPT ![r] = db.txn]
  /\ pc' = [pc EXCEPT ![r] = "done"]
  /\ UNCHANGED <<created, response, request, bg, k>> /\ UNCHANGED evalVars
  /\ UNCHANGED auxVars

Next ==
  \/ \E body \in Bodies : CreateRun(body)
  \/ \E body \in Bodies : RejectRun(body)
  \/ Deliver
  \/ \E id \in RunIds : GetRun(id)
  \/ ListRuns
  \/ \E r \in RunIds : StartBackground(r)
  \/ \E r \in RunIds : RunTestCase(r)
  \/ \E r \in RunIds : FinishEval(r)
  \/ \E r \in RunIds : FinishEvalRaises(r)
  \/ \E r \in RunIds : InsertResult(r)
  \/ \E r \in RunIds : InsertResultRaises(r)
  \/ \E r \in RunIds : UpdateRunStatus(r)

Spec == Init /\ [][Next]_vars

\* The pipeline alone, started from the command line on some file.
EvalNext ==
  \/ \E content \in Files : RunEvalCli(content)
  \/ \E r \in RunIds : RunTestCase(r)
  \/ \E r \in RunIds : FinishEval(r)
  \/ \E r \in RunIds : FinishEvalRaises(r)

EvalSpec == Init /\ [][EvalNext]_vars

\* --------------------------------------------------- get_run, query by query
\* get_run awaits two queries on its connection, each a SELECT of its own
\* (no transaction spans them), and the background tasks run on the same
\* event loop: between the two queries any of their steps may happen.
\* First query: fetch_run_by_id; no row ends the handler with the 404.
GetRunFetchRun(run_id) ==
  /\ Idle /\ reader = NoRead
  /\ LET found == fetch_run_by_id([committed |-> store, txn |-> <<>>], run_id)
     IN  IF found = <<>>
         THEN response' = NotFound /\ UNCHANGED reader
         ELSE /\ reader' = [pc |-> "fetched", run_id |-> run_id, found |-> found]
              /\ UNCHANGED response
  /\ UNCHANGED <<store, txn, created, pc, request, bg, k>> /\ UNCHANGED evalVars
  /\ UNCHANGED <<client, constructed, thread, unit>>

\* Second query: fetch_results_for_run, then the response is built from the
\* row read before and the rows read now.
GetRunFetchResults ==
  /\ Idle /\ reader.pc = "fetched"
  /\ response' =
       RunDetailResponse(reader.found[1],
                         fetch_results_for_run([committed |-> store, txn |-> <<>>],
                                               reader.run_id))
  /\ reader' = NoRead
  /\ UNCHANGED <<store, txn, created, pc, request, bg, k>> /\ UNCHANGED evalVars
  /\ UNCHANGED <<client, constructed, thread, unit>>

\* The service with get_run taken query by query.
ReadNext ==
  \/ \E body \in Bodies : CreateRun(body)
  \/ Deliver
  \/ \E id \in RunIds : GetRunFetchRun(id)
  \/ GetRunFetchResults
  \/ \E r \in RunIds : StartBackground(r)
  \/ \E r \in RunIds : RunTestCase(r)
  \/ \E r \in RunIds : FinishEval(r)
  \/ \E r \in RunIds : FinishEvalRaises(r)
  \/ \E r \in RunIds : InsertResult(r)
  \/ \E r \in RunIds : InsertResultRaises(r)
  \/ \E r \in RunIds : UpdateRunStatus(r)

ReadSpec == Init /\ [][ReadNext]_vars

\* ------------------------------------------------------------ get_client
\* run_eval runs in a worker thread of its own for every run of the service
\* (asyncio.to_thread), and each call_claude calls get_client, so several
\* threads are inside get_client at once.  Nothing in it is locked: a thread
\* may be switched out between any two of its statements.
GetClientCall(t) ==
  /\ thread[t].pc = "idle" /\ Len(thread[t].got) < MaxGets
  /\ thread' = [thread EXCEPT ![t].pc = "check"]
  /\ UNCHANGED <<client, constructed, unit, pc, bg, reader>>
  /\ UNCHANGED serviceVars /\ UNCHANGED evalVars

\* if _client is None:
GetClientCheck(t) ==
  /\ thread[t].pc = "check"
  /\ thread' = [thread EXCEPT ![t].pc =
                  IF client.built THEN "return" ELSE "construct"]
  /\ UNCHANGED <<client, constructed, unit, pc, bg, reader>>
  /\ UNCHANGED serviceVars /\ UNCHANGED evalVars

\* load_dotenv(); anthropic.Anthropic()
GetClientConstruct(t) ==
  /\ thread[t].pc = "construct"
  /\ constructed' = constructed + 1
  /\ thread' = [thread EXCEPT ![t].pc = "assign", ![t].made = constructed + 1]
  /\ UNCHANGED <<client, unit, pc, bg, reader>>
  /\ UNCHANGED serviceVars /\ UNCHANGED evalVars

\* _client = <the new object>
GetClientAssign(t) ==
  /\ thread[t].pc = "assign"
  /\ client' = [built |-> TRUE, handle |-> thread[t].made]
  /\ thread' = [thread EXCEPT ![t].pc = "return"]
  /\ UNCHANGED <<constructed, unit, pc, bg, reader>>
  /\ UNCHANGED serviceVars /\ UNCHANGED evalVars

\* return _client: the global is read again.
GetClientReturn(t) ==
  /\ thread[t].pc = "return"
  /\ thread' = [thread EXCEPT ![t].pc = "idle",
                              ![t].got = Append(@, client.handle)]
  /\ UNCHANGED <<client, constructed, unit, pc, bg, reader>>
  /\ UNCHANGED serviceVars /\ UNCHANGED evalVars

ClientNext ==
  \/ \E t \in Threads : GetClientCall(t)
  \/ \E t \in Threads : GetClientCheck(t)
  \/ \E t \in Threads : GetClientConstruct(t)
  \/ \E t \in Threads : GetClientAssign(t)
  \/ \E t \in Threads : GetClientReturn(t)

ClientSpec == Init /\ [][ClientNext]_vars

\* ------------------------------------------------- single calls (the tests)
\* A test makes one call and looks at what came back.
\* One call of grade_exact_match on a pair of texts.
GradeExactMatch(actual, expected) ==
  /\ unit = NoUnit
  /\ unit' = [fn |-> "grade_exact_match", actual |-> actual,
              expected |-> expected, out |-> grade_exact_match(actual, expected)]
  /\ UNCHANGED <<client, constructed, thread, pc, bg, reader>>
  /\ UNCHANGED serviceVars /\ UNCHANGED evalVars

\* One call of grade_with_llm, the remote model answering with reply.
GradeWithLlm(reply) ==
  /\ unit = NoUnit
  /\ unit' = [fn |-> "grade_with_llm", reply |-> reply,
              out |-> grade_with_llm(reply)]
  /\ UNCHANGED <<client, constructed, thread, pc, bg, reader>>
  /\ UNCHANGED serviceVars /\ UNCHANGED evalVars

\* One call of the Result constructor with a score of the caller's choice.
ConstructResult(score) ==
  /\ unit = NoUnit
  /\ unit' = [fn |-> "Result", score |-> score,
              out |-> Result([id |-> 1], NoRun, <<>>, 0,
                             [score |-> score, reasoning |-> <<>>], <<>>)]
  /\ UNCHANGED <<client, constructed, thread, pc, bg, reader>>
  /\ UNCHANGED serviceVars /\ UNCHANGED evalVars

\* One call of run_test_case on a loaded test case, for a run with the
\* given system prompt, the remote model behaving as first / judge say.
RunTestCaseUnit(test_case, system_prompt, first_reply, judge_reply) ==
  /\ unit = NoUnit
  /\ unit' = [fn |-> "run_test_case", test_case |-> test_case,
              system_prompt |-> system_prompt, first |-> first_reply,
              judge |-> judge_reply,
              out |-> run_test_case_on(test_case,
                                       [NoRun EXCEPT !.system_prompt = system_prompt],
                                       first_reply, judge_reply)]
  /\ UNCHANGED <<client, constructed, thread, pc, bg, reader>>
  /\ UNCHANGED serviceVars /\ UNCHANGED evalVars

\* The test cases a single call is tried on: those a file can load.
TestCases ==
  { [id |-> 1, input |-> c.input, expected_output |-> c.expected_output,
     scoring_method |-> c.scoring_method] :
      c \in {d \in CaseSpecs : d.scoring_method \in ScoringMethod} }

UnitNext ==
  \/ \E actual \in Texts : \E expected \in Texts : GradeExactMatch(actual, expected)
  \/ \E reply \in AllJudgeReplies : GradeWithLlm(reply)
  \/ \E score \in ResultScores : ConstructResult(score)
  \/ \E test_case \in TestCases : \E system_prompt \in SystemPrompts :
       \E first_reply \in ModelReplies \cup {CallFailed} :
         \E judge_reply \in JudgeReplies \cup {CallFailed} :
           RunTestCaseUnit(test_case, system_prompt, first_reply, judge_reply)

GradeSpec == Init /\ [][UnitNext]_vars

\* One process does one thing: a single call, or a run of the pipeline.
ResultNext ==
  \/ unit = NoUnit /\ EvalNext
  \/ pc[1] = "none" /\ UnitNext

ResultSpec == Init /\ [][ResultNext]_vars

\* ------------------------------------------------------- derived state
StatusOf(data, r) ==
  LET hit(row) == row.id = r
      found == SelectSeq(data.runs, hit)
  IN  IF found = <<>> THEN "absent" ELSE found[1].status

RowsOf(data, r) ==
  LET hit(row) == row.run_id = r
  IN  SelectSeq(data.results, hit)

\* run_eval has been left, normally or by an exception.
EvalOver(r) == pc[r] \in {"persist", "done", "crashed"}
\* run_eval returned normally: the snapshot is its last effect.
EvalReturned(r) == EvalOver(r) /\ snapshot[r].written
EvalRaised(r) == EvalOver(r) /\ ~snapshot[r].written

Survivors(r) ==
  LET ok(p) == ~p.raised
  IN  SelectSeq(processed[r], ok)

SomeRaised(r) == \E j \in 1..Len(processed[r]) : processed[r][j].raised

\* ------------------------------------------------------------------ claims

\* C1: run_eval returns exactly the Results of the cases that did not raise,
\* in input order; their number is N minus the number of cases that raised.
C1_ResultsAreSurvivorsInOrder ==
  \A r \in RunIds :
    EvalReturned(r) =>
      LET out == bg[r].results
          ok == Survivors(r)
          N == Len(test_cases[r])
          raisedCount == Cardinality({j \in 1..Len(processed[r]) :
                                        processed[r][j].raised})
      IN  /\ Len(out) = Len(ok)
          /\ \A j \in 1..Len(out) : out[j].test_case_id = ok[j].id
          /\ \A j \in 1..Len(out) : \A m \in 1..Len(out) :
               j < m => out[j].test_case_id < out[m].test_case_id
          /\ Len(out) = N - raisedCount

\* C1 witness: a two-case run returned both Results.
C1_Witness ==
  \E r \in RunIds :
    /\ EvalReturned(r) /\ Len(test_cases[r]) = 2 /\ Len(bg[r].results) = 2

\* C2: every loaded case is taken up exactly once, in input order, one at a
\* time, and a failing case does not keep the later ones from being taken up.
C2_SerialInOrderNoAbort ==
  \A r \in RunIds :
    /\ \A j \in 1..Len(processed[r]) : processed[r][j].id = j
    /\ Len(processed[r]) = idx[r] - 1
    /\ Len(results[r]) + Len(errors[r]) = Len(processed[r])
    /\ EvalOver(r) => Len(processed[r]) = Len(test_cases[r])

\* C2 witness: the first of two cases raised and the second was still run.
C2_Witness ==
  \E r \in RunIds :
    /\ EvalOver(r) /\ Len(processed[r]) = 2
    /\ processed[r][1].raised /\ ~processed[r][2].raised

\* C3: the status in the snapshot is failed iff some case raised, completed
\* otherwise, also when every case raised and there is no Result.
C3_SnapshotStatus ==
  \A r \in RunIds :
    snapshot[r].written =>
      /\ snapshot[r].run.status = (IF SomeRaised(r) THEN "failed" ELSE "completed")
      /\ snapshot[r].run.status = run[r].status

\* C3 witness: the only case of a run raised; the snapshot holds no Result.
C3_Witness ==
  \E r \in RunIds :
    /\ snapshot[r].written /\ Len(test_cases[r]) = 1
    /\ snapshot[r].results = <<>> /\ snapshot[r].run.status = "failed"

\* C4: once the background task of a run has run to its end, the persisted
\* status is failed whenever the pipeline raised or some case raised, and
\* completed only when every submitted test case produced a Result.
C4_PersistedStatusReflectsErrors ==
  \A r \in RunIds :
    pc[r] = "done" =>
      StatusOf(store, r) =
        (IF EvalRaised(r) \/ SomeRaised(r) THEN "failed" ELSE "completed")

\* C5: if the pipeline call raises in the background task, also after cases
\* were graded, the run ends failed with no result row persisted.
C5_PipelineRaiseFailsRunWithoutRows ==
  \A r \in RunIds :
    EvalRaised(r) =>
      /\ RowsOf(store, r) = <<>> /\ txn[r] = <<>> /\ pc[r] # "crashed"
      /\ pc[r] = "done" => StatusOf(store, r) = "failed"

\* C5 witness: the pipeline raised after grading a case, and the task is done.
C5_Witness ==
  \E r \in RunIds : EvalRaised(r) /\ pc[r] = "done" /\ results[r] # <<>>

\* C6: every persisted result row carries the input and expected text of
\* the test case whose model response is its actual_output.
C6_RowMatchesItsTestCase ==
  \A r \in RunIds :
    \A i \in 1..Len(RowsOf(store, r)) :
      LET row == RowsOf(store, r)[i]
          res == bg[r].results[row.id[2]]
          tc == test_cases[r][res.test_case_id]
      IN  /\ row.actual_output = res.actual_output
          /\ row.test_case_input = tc.input
          /\ row.test_case_expected = tc.expected_output

\* C7: a write is committed when the persistence call returns: every result
\* row whose insert_result has returned is in the committed database.
C7_InsertCommittedOnReturn ==
  \A r \in RunIds :
    \A i \in 1..(k[r] - 1) :
      \E j \in 1..Len(store.results) : store.results[j].id = <<r, i>>

\* C8: a run's persisted status starts as running, changes at most once,
\* only to completed or failed, and never goes back.
C8_StatusMonotonic ==
  [][\A r \in RunIds :
       LET old == StatusOf(store, r)
           new == StatusOf(store', r)
       IN  /\ old = "absent" /\ new # "absent" => new = "running"
           /\ old # "absent" /\ new # old =>
                old = "running" /\ new \in {"completed", "failed"}]_vars

\* C8 witness: one run ended completed and another failed.
C8_Witness ==
  \E r \in RunIds : \E q \in RunIds :
    StatusOf(store, r) = "completed" /\ StatusOf(store, q) = "failed"

\* C9: a dispatched run does not stay running: when its background task has
\* ended, by its last statement or by an exception of the store, the
\* persisted status is completed or failed.
C9_EndedTaskLeavesTerminalStatus ==
  \A r \in RunIds :
    pc[r] \in {"done", "crashed"} => StatusOf(store, r) \in {"completed", "failed"}

\* C10: the run row is committed in running status before the 202 response
\* goes out and before the pipeline starts; the response names the run, and
\* a get-run on another connection finds it.
C10_CreatedRunIsCommitted ==
  /\ response.kind = "created" =>
       LET detail == get_run([committed |-> store, txn |-> <<>>], response.id)
       IN  /\ response.code = 202 /\ response.status = "running"
           /\ response.name = request[response.id].name
           /\ pc[response.id] = "scheduled"
           /\ detail.kind = "detail" /\ detail.id = response.id
           /\ detail.name = response.name /\ detail.status = "running"
  /\ \A r \in RunIds :
       pc[r] # "none" => StatusOf(store, r) # "absent"

\* C10 witness: the response of the second create-run is on its way while
\* the first run's pipeline is at work.
C10_Witness ==
  /\ response.kind = "created" /\ response.id = 2
  /\ pc[1] = "eval"

\* C11: a create-run request with an empty list of test cases is rejected:
\* no run row is persisted and no pipeline execution is scheduled for it.
C11_EmptyRequestRejected ==
  \A r \in RunIds :
    (pc[r] # "none" \/ StatusOf(store, r) # "absent") =>
      request[r].test_cases # <<>>

\* C12: when the file run_eval is given is not an array, or any element of
\* it (the last one included) lacks a required field, has an unknown field or
\* names an unknown scoring method, run_eval raises before any model
\* invocation: no call, no Result, no snapshot.
C12_LoadFailureBeforeAnyCall ==
  \A r \in RunIds :
    LET content == file[r]
        bad(tc) ==
          \/ "input" \notin DOMAIN tc
          \/ "expected_output" \notin DOMAIN tc
          \/ \E f \in DOMAIN tc :
               f \notin {"id", "input", "expected_output", "scoring_method",
                         "tags", "created_at"}
          \/ /\ "scoring_method" \in DOMAIN tc
             /\ tc.scoring_method \notin {"exact_match", "llm_judge", "fuzzy"}
    IN  (~content.is_array \/ \E i \in 1..Len(content.items) : bad(content.items[i]))
          => /\ pc[r] # "eval" /\ bg[r] = PipelineRaised
             /\ calls[r] = <<>> /\ results[r] = <<>>
             /\ snapshot[r] = NoSnapshot

\* A file whose first element is sound and whose last lacks a field was run.
C12_Witness ==
  /\ pc[1] = "persist" /\ file[1].is_array /\ Len(file[1].items) = 2
  /\ DOMAIN file[1].items[1] = {"input", "expected_output", "scoring_method"}
  /\ file[1].items[1].scoring_method = "exact_match"
  /\ "expected_output" \notin DOMAIN file[1].items[2]

\* C13: get-run for an id without a run row answers 404 and changes nothing
\* in the store; get-run for an id with a run row never answers 404.
C13_NotFoundExactlyForUnknownRun ==
  [][\A id \in RunIds :
       GetRun(id) =>
         /\ (response'.code = 404) <=> (StatusOf(store, id) = "absent")
         /\ response'.code # 404 => response'.kind = "detail" /\ response'.id = id
         /\ store' = store /\ txn' = txn]_vars

\* C13 witness: a 404 went out while another run was in the store.
C13_Witness ==
  response.kind = "error" /\ response.code = 404 /\ store.runs # <<>>

\* C14: the detail of a run holds all its results; total is their number,
\* passed the number of those with score >= 0.7 (0.7 itself passes), and
\* avg_score and avg_latency_ms are absent, not zero, exactly when the run
\* has no results.
C14_DetailAggregates ==
  response.kind = "detail" =>
    LET rows == RowsOf(store, response.id)
        res == response.results
    IN  /\ Len(res) = Len(rows) /\ response.total = Len(rows)
        /\ {res[i].id : i \in 1..Len(res)} = {rows[i].id : i \in 1..Len(rows)}
        /\ \A i \in 1..Len(res) : \E j \in 1..Len(rows) :
             res[i].id = rows[j].id /\ res[i].score = rows[j].score
        /\ response.passed = Cardinality({i \in 1..Len(res) : res[i].score >= 7})
        /\ response.avg_score.present <=> Len(rows) > 0
        /\ response.avg_latency_ms.present <=> Len(rows) > 0
        /\ Len(rows) > 0 =>
             /\ response.avg_score.num = SumOver(res, "score")
             /\ response.avg_score.den = Len(rows)
             /\ response.avg_latency_ms.num = SumOver(res, "latency_ms")
             /\ response.avg_latency_ms.den = Len(rows)

\* C14 witness: a detail with one result scored exactly 0.7 and one scored
\* 0.0; one of the two passed.
C14_Witness ==
  /\ response.kind = "detail" /\ response.total = 2 /\ response.passed = 1
  /\ \E i \in 1..2 : response.results[i].score = 7
  /\ \E i \in 1..2 : response.results[i].score = 0

\* C15: list-runs answers one summary per persisted run, newest first, with
\* result_count the number of the run's result rows and avg_score absent
\* exactly when there is none; a run without results is still listed.
C15_ListSummaries ==
  response.kind = "list" =>
    LET out == response.runs
    IN  /\ Len(out) = Len(store.runs)
        /\ \A j \in 1..Len(store.runs) :
             Cardinality({i \in 1..Len(out) : out[i].id = store.runs[j].id}) = 1
        /\ \A i \in 1..Len(out) : \A j \in 1..Len(out) :
             i < j => out[i].created_at >= out[j].created_at
        /\ \A i \in 1..Len(out) :
             LET rows == RowsOf(store, out[i].id)
             IN  /\ out[i].result_count = Len(rows)
                 /\ out[i].status = StatusOf(store, out[i].id)
                 /\ out[i].avg_score.present <=> Len(rows) > 0
                 /\ Len(rows) > 0 =>
                      /\ out[i].avg_score.num = SumOver(rows, "score")
                      /\ out[i].avg_score.den = Len(rows)

\* C15 witness: two runs listed, the newer without results, the older with.
C15_Witness ==
  /\ response.kind = "list" /\ Len(response.runs) = 2
  /\ response.runs[1].result_count = 0 /\ response.runs[1].id = 2
  /\ response.runs[2].result_count > 0

\* C16: runs at work at the same time do not touch each other: every
\* persisted result row carries the id its own task's create-run returned
\* and holds a result of that task's pipeline, no run has more rows than
\* test cases were submitted for it, and the status update of one run leaves
\* the status and the rows of every other run as they were.
C16_RunsIndependent ==
  /\ [](\A j \in 1..Len(store.results) :
          LET row == store.results[j]
              r == row.id[1]
          IN  /\ row.run_id = r /\ StatusOf(store, r) # "absent"
              /\ row.id[2] \in 1..Len(bg[r].results)
              /\ row.actual_output = bg[r].results[row.id[2]].actual_output
              /\ bg[r].results[row.id[2]].run_id = run[r].id)
  /\ [](\A r \in RunIds :
          Len(RowsOf(store, r)) <= Len(request[r].test_cases))
  /\ [][\A r \in RunIds :
          UpdateRunStatus(r) =>
            \A q \in RunIds \ {r} :
              /\ StatusOf(store', q) = StatusOf(store, q)
              /\ RowsOf(store', q) = RowsOf(store, q)]_vars

\* C16 witness: run 1 is done with its row committed while run 2, created
\* before run 1 ended, is in the middle of its inserts.
C16_Witness ==
  /\ pc[1] = "done" /\ RowsOf(store, 1) # <<>>
  /\ pc[2] = "persist" /\ txn[2] # <<>> /\ StatusOf(store, 2) = "running"

\* C17: get_client constructs the remote client exactly once, however many
\* calls are made and from however many threads, and every call returns the
\* same handle.
C17_ClientConstructedOnce ==
  /\ constructed <= 1
  /\ \A t \in Threads : \A u \in Threads :
       \A i \in 1..Len(thread[t].got) : \A j \in 1..Len(thread[u].got) :
         thread[t].got[i] = thread[u].got[j]

\* C18: grade_exact_match scores 1.0 exactly when actual and expected are
\* equal once the blanks around them are dropped and case is ignored, and
\* 0.0 otherwise; on a match the reasoning is "Exact match.", on a mismatch
\* it contains both the expected and the actual text.
C18_ExactMatchScore ==
  unit.fn = "grade_exact_match" =>
    LET inner(s) ==
          LET ns == {i \in 1..Len(s) : s[i] # " "}
          IN  IF ns = {} THEN <<>>
              ELSE SubSeq(s, CHOOSE i \in ns : \A j \in ns : i <= j,
                             CHOOSE i \in ns : \A j \in ns : i >= j)
        sameLetter(x, y) ==
          x = y \/ {x, y} = {"a", "A"} \/ {x, y} = {"b", "B"}
        same(x, y) ==
          Len(x) = Len(y) /\ \A i \in 1..Len(x) : sameLetter(x[i], y[i])
        contains(r, x) ==
          \E n \in 0..(Len(r) - Len(x)) : SubSeq(r, n + 1, n + Len(x)) = x
        equal == same(inner(unit.actual), inner(unit.expected))
        out == unit.out
    IN  /\ out.score \in {0, 10}
        /\ out.score = 10 <=> equal
        /\ equal => out.reasoning = <<"Exact match.">>
        /\ ~equal => /\ contains(out.reasoning, unit.expected)
                     /\ contains(out.reasoning, unit.actual)
                     /\ out.reasoning # <<"Exact match.">>

\* C18 witness: " A" against "a" was graded as a match.
C18_Witness ==
  /\ unit.fn = "grade_exact_match" /\ unit.actual = <<" ", "A">>
  /\ unit.expected = <<"a">> /\ unit.out.score = 10

\* C19: whatever the judge answers, grade_with_llm returns, with a score in
\* [0,1]: a number in the score tag is clamped (above 1 gives 1.0, below 0
\* gives 0.0, inside stays), no score tag or a body that is no number gives
\* 0.0, and no reasoning tag gives "Could not parse reasoning.".
C19_JudgeScoreClamped ==
  unit.fn = "grade_with_llm" =>
    LET reply == unit.reply
        out == unit.out
        body == SelectSeq(reply.score, LAMBDA c : c # " ")
        blanksInside ==
          \E i \in 1..Len(reply.score) : \E j \in 1..Len(reply.score) :
            \E m \in 1..Len(reply.score) :
              i < j /\ j < m /\ reply.score[i] # " " /\ reply.score[j] = " "
                /\ reply.score[m] # " "
        one == Len(body) = 1 /\ ~blanksInside
        is(t) == reply.has_score /\ one /\ body[1] = t
    IN  /\ ~out.raised
        /\ 0 <= out.score /\ out.score <= 10
        /\ ~reply.has_score => out.score = 0
        /\ is("1.5") \/ is("inf") \/ is("1.0") => out.score = 10
        /\ is("-0.5") \/ is("-inf") \/ is("0.0") => out.score = 0
        /\ is("0.7") => out.score = 7
        /\ is("0.5") => out.score = 5
        /\ reply.has_score /\ (~one \/ body[1] = "high") => out.score = 0
        /\ ~reply.has_reasoning => out.reasoning = <<"Could not parse reasoning.">>
        /\ reply.has_reasoning =>
             out.reasoning = SelectSeq(reply.reasoning, LAMBDA c : c # " ")

\* C19 witness: a judge reply with score 1.5 and no reasoning tag was graded.
C19_Witness ==
  /\ unit.fn = "grade_with_llm" /\ unit.reply.has_score
  /\ unit.reply.score = <<"1.5">> /\ ~unit.reply.has_reasoning
  /\ unit.out.score = 10

\* C20: every Result there is (in the pipeline's list, returned to the
\* caller, in the snapshot, in the store) has its score in [0,1]; the
\* constructor turns a score outside [0,1] down with a validation error and
\* keeps a score inside as it is; and neither grader produces a score the
\* constructor turns down.
C20_ResultScoreInRange ==
  LET inRange(x) == 0 <= x /\ x <= 10
      allIn(rs) == \A i \in 1..Len(rs) : inRange(rs[i].score)
  IN  /\ \A r \in RunIds :
           /\ allIn(results[r]) /\ allIn(bg[r].results)
           /\ snapshot[r].written => allIn(snapshot[r].results)
           /\ \A i \in 1..Len(errors[r]) : errors[r][i] # <<"ValidationError">>
           /\ \A i \in 1..Len(txn[r]) :
                txn[r][i].op = "insert_result" => inRange(txn[r][i].row.score)
      /\ allIn(store.results)
      /\ unit.fn = "Result" =>
           /\ unit.out.raised <=> ~inRange(unit.score)
           /\ ~unit.out.raised => unit.out.result.score = unit.score
      /\ unit.fn \in {"grade_exact_match", "grade_with_llm"} =>
           inRange(unit.out.score)

\* C20 witness: the constructor was called with 1.5 and raised.
C20_Witness ==
  unit.fn = "Result" /\ unit.score = 15 /\ unit.out.raised

\* C21 as stated: processing a test case with the unimplemented scoring
\* method fails with a NotImplementedError that names the method, whatever
\* else happens; in run_eval there is no Result for the case, the later
\* cases are taken up and the final status is failed.
C21_AlwaysNotImplemented ==
  /\ (unit.fn = "run_test_case" /\ unit.test_case.scoring_method = "fuzzy") =>
       /\ unit.out.raised /\ unit.out.kind = "NotImplementedError"
       /\ \E i \in 1..Len(unit.out.error) : unit.out.error[i] = "fuzzy"
  /\ \A r \in RunIds : \A j \in 1..Len(processed[r]) :
       test_cases[r][j].scoring_method = "fuzzy" =>
         /\ processed[r][j].raised
         /\ processed[r][j].kind = "NotImplementedError"
         /\ \A i \in 1..Len(results[r]) : results[r][i].test_case_id # j
         /\ EvalOver(r) =>
              /\ Len(processed[r]) = Len(test_cases[r])
              /\ run[r].status = "failed"

\* C21: a test case with the unimplemented scoring method never yields a
\* Result; once its model invocation has returned, run_test_case raises a
\* NotImplementedError whose message names the method.  In run_eval the case
\* is a failed case like any other: no Result for it, the cases after it are
\* still taken up, and the final status of the run is failed.
C21_UnimplementedMethodFailsCase ==
  /\ (unit.fn = "run_test_case" /\ unit.test_case.scoring_method = "fuzzy") =>
       /\ unit.out.raised
       /\ unit.first # CallFailed =>
            /\ unit.out.kind = "NotImplementedError"
            /\ \E i \in 1..Len(unit.out.error) : unit.out.error[i] = "fuzzy"
  /\ \A r \in RunIds : \A j \in 1..Len(processed[r]) :
       test_cases[r][j].scoring_method = "fuzzy" =>
         /\ processed[r][j].raised
         /\ processed[r][j].kind \in {"NotImplementedError", "APIError"}
         /\ \A i \in 1..Len(results[r]) : results[r][i].test_case_id # j
         /\ EvalOver(r) =>
              /\ Len(processed[r]) = Len(test_cases[r])
              /\ run[r].status = "failed"
         /\ snapshot[r].written => snapshot[r].run.status = "failed"

\* C21 witness: the first of two cases had the unimplemented method, the
\* second was graded, and the run was saved as failed with that one Result.
C21_Witness ==
  /\ snapshot[1].written /\ Len(processed[1]) = 2
  /\ test_cases[1][1].scoring_method = "fuzzy"
  /\ processed[1][1].kind = "NotImplementedError"
  /\ ~processed[1][2].raised /\ Len(snapshot[1].results) = 1

\* C22: a model invocation carries the system parameter exactly when a
\* non-empty system prompt was given: the judge's invocation never carries
\* one, whatever the run was created with, and the test-case invocation
\* carries the run's system prompt exactly when that is not empty.
C22_SystemPromptIffGiven ==
  \A r \in RunIds : \A i \in 1..Len(calls[r]) :
    LET c == calls[r][i]
        ofJudge == c.prompt[1] = "<expected>"
        given == request[r].system_prompt
    IN  /\ c.has_system => c.system # ""
        /\ ofJudge => ~c.has_system
        /\ ~ofJudge => /\ c.has_system <=> given # ""
                       /\ c.has_system => c.system = given

\* C22 witness: a run created with a system prompt made a test-case
\* invocation that carries it and a judge invocation that carries none.
C22_Witness ==
  \E r \in RunIds :
    /\ request[r].system_prompt = "Be terse." /\ Len(calls[r]) = 2
    /\ calls[r][1].has_system /\ calls[r][1].system = "Be terse."
    /\ calls[r][2].prompt[1] = "<expected>" /\ ~calls[r][2].has_system

\* C23: when run_eval has returned normally, the snapshot is written, and it
\* holds the run with its final status (completed or failed, not running)
\* and exactly the Results run_eval returned, in their order, also when that
\* list is empty.
C23_SnapshotBeforeReturn ==
  \A r \in RunIds :
    (pc[r] \in {"persist", "done", "crashed"} /\ bg[r].status = "completed") =>
      /\ snapshot[r].written
      /\ snapshot[r].run.status \in {"completed", "failed"}
      /\ snapshot[r].run.status = run[r].status
      /\ snapshot[r].run.id = run[r].id /\ snapshot[r].run.name = run[r].name
      /\ snapshot[r].results = bg[r].results

\* C23 witness: run_eval returned an empty list for a file of one case, which
\* raised; the snapshot holds the failed run and no Result.
C23_Witness ==
  /\ pc[1] = "persist" /\ bg[1].status = "completed" /\ bg[1].results = <<>>
  /\ Len(test_cases[1]) = 1 /\ snapshot[1].written
  /\ snapshot[1].run.status = "failed" /\ snapshot[1].results = <<>>

\* C24: a create-run request with a scoring method outside the enumeration is
\* accepted: the run is persisted.  Its background execution fails at load
\* time: no model invocation, no result row, and the run ends failed, also
\* when the other test cases of the request are sound.
C24_UnknownMethodFailsRunAtLoad ==
  \A r \in RunIds :
    (/\ pc[r] # "none"
     /\ \E i \in 1..Len(request[r].test_cases) :
          request[r].test_cases[i].scoring_method
            \notin {"exact_match", "llm_judge", "fuzzy"}) =>
      /\ StatusOf(store, r) # "absent"
      /\ calls[r] = <<>> /\ results[r] = <<>>
      /\ RowsOf(store, r) = <<>> /\ txn[r] = <<>>
      /\ pc[r] \in {"scheduled", "persist", "done"}
      /\ pc[r] = "done" => StatusOf(store, r) = "failed"

\* C24 witness: a run of one sound case followed by one with an unknown
\* method has ended.
C24_Witness ==
  \E r \in RunIds :
    /\ pc[r] = "done" /\ Len(request[r].test_cases) = 2
    /\ request[r].test_cases[1].scoring_method = "exact_match"
    /\ request[r].test_cases[2].scoring_method = "bogus"
    /\ StatusOf(store, r) = "failed"

\* C25: the result rows of a run and its terminal status become visible in
\* one commit: no reader on another connection sees a run still running
\* together with results of it, nor a completed or failed run with only
\* part of the results its background task inserted.
C25_ResultsAndStatusSeenTogether ==
  /\ \A r \in RunIds :
       /\ StatusOf(store, r) = "running" => RowsOf(store, r) = <<>>
       /\ StatusOf(store, r) \in {"completed", "failed"} =>
            Len(RowsOf(store, r)) = Len(bg[r].results)
  /\ response.kind = "detail" =>
       /\ response.status = "running" => response.total = 0
       /\ response.status \in {"completed", "failed"} =>
            response.total = Len(bg[response.id].results)

\* C26 as stated: the number of model invocations made for a test case
\* depends only on its scoring method: one for exact-match, two for
\* model-judged, one for the unimplemented method; the Result's latency is
\* that of the first invocation.
C26_CallsByMethodOnly ==
  unit.fn = "run_test_case" =>
    LET method == unit.test_case.scoring_method
        out == unit.out
    IN  /\ Len(out.calls) = (IF method = "llm_judge" THEN 2 ELSE 1)
        /\ ~out.raised => out.result.latency_ms = unit.first.latency_ms

\* C26: when the test-case invocation returns, the number of model
\* invocations made for a test case depends only on its scoring method: one
\* for exact-match, two for model-judged (the test-case prompt, then the
\* judge prompt, whether or not the judge answers), one for the
\* unimplemented method, made before the dispatch fails.  When the test-case
\* invocation raises, it is the only one, whatever the method.  The
\* Result's latency is that of the test-case invocation alone.
C26_CallsByMethodWhenFirstReturns ==
  unit.fn = "run_test_case" =>
    LET method == unit.test_case.scoring_method
        out == unit.out
        answered == unit.first # CallFailed
    IN  /\ out.calls[1].prompt = <<unit.test_case.input>>
        /\ ~answered => Len(out.calls) = 1 /\ out.raised
        /\ (answered /\ method = "exact_match") => Len(out.calls) = 1
        /\ (answered /\ method = "llm_judge") =>
             /\ Len(out.calls) = 2
             /\ out.calls[2].prompt[1] = "<expected>"
        /\ (answered /\ method = "fuzzy") => Len(out.calls) = 1 /\ out.raised
        /\ ~out.raised => out.result.latency_ms = unit.first.latency_ms

\* C26 witness: a model-judged case was run, both invocations answered, and
\* the Result has the latency of the first.
C26_Witness ==
  /\ unit.fn = "run_test_case" /\ unit.test_case.scoring_method = "llm_judge"
  /\ ~unit.out.raised /\ Len(unit.out.calls) = 2
  /\ unit.first.latency_ms = 20 /\ unit.judge.latency_ms = 30
  /\ unit.out.result.latency_ms = 20

====
